---- MODULE Spec2Model ----
(***************************************************************************)
(* Lifecycle of the two pooled-connection managers of the repository:      *)
(*   DatabaseClient        (src/src/db_client.py)                          *)
(*   ValkeyConnectionPool  (src/src/valkey_client.py), its scoped wrapper  *)
(*   ValkeyConnection and its decorator with_valkey, and the               *)
(*   concurrent-increment scenario of src/tests/test_connection.py.        *)
(* Callers are asyncio tasks on one event loop: a task runs atomically     *)
(* from one `await` that really suspends (a call into asyncpg / glide) to  *)
(* the next, so every action below is one such run.  The libraries are     *)
(* external: each awaited library call either returns or raises.           *)
(* The two managers share no state, so a behaviour exercises one of them:  *)
(* Init chooses which (mgr).  Caller tasks have no identity of their own:  *)
(* the state holds the bag of their frames.                                *)
(***************************************************************************)
EXTENDS Integers, FiniteSets, Sequences, Bags, TLC

\* ------------------------------------------------------------- bounds
NumTasks == 2       \* caller tasks
MaxCreate == 2      \* successful create_pool / GlideClient.create calls per manager
MaxInst == 2        \* ValkeyConnectionPool objects that can be allocated
NumWorkers == 4     \* workers of the concurrent-increment scenario

PoolIds == 1..MaxCreate
ClientIds == 1..MaxCreate
InstIds == 1..MaxInst
Workers == 1..NumWorkers

\* Python's None, and "the instance has no attribute of its own".
None == 0
Unset == 0 - 1

\* Arguments callers pass to connect / initialize.
Hosts == {"h1", "h2"}
Creds == {"alice:pw1", "bob:pw2"}
\* Errors a block run inside ValkeyConnection can raise.
BodyErrors == {"ValueError", "RequestError"}

VARIABLES
    mgr,          \* the manager this behaviour exercises: "db" or "vk"
    _pool,        \* DatabaseClient._pool: None or a pool id
    poolSt,       \* asyncpg side: state of every pool id
    borrowed,     \* asyncpg side: connections acquired and not released
    _instance,    \* ValkeyConnectionPool._instance (class attribute)
    inst_client,  \* per instance: its own _client attribute, or Unset
    clientSt,     \* glide side: state of every client id
    valkey_pool,  \* the module-level instance of valkey_client.py
    tasks,        \* the bag of the caller tasks' frames
    counter,      \* server side: value of the key "shared:counter"
    wpc           \* per worker of test_concurrent_access: its position

dbVars == <<_pool, poolSt, borrowed>>
vkVars == <<_instance, inst_client, clientSt, valkey_pool>>
testVars == <<counter, wpc>>
vars == <<mgr, dbVars, vkVars, tasks, testVars>>

NoArg == <<>>
Running == <<"running">>
Ok == <<"ok">>

\* ------------------------------------------------------ error values
DbConnectionError(host) ==
    <<"ConnectionError", "Cannot connect to PostgreSQL server at", host>>
DbNotConnected ==
    <<"RuntimeError", "PostgreSQL is not connected. Call connect() first.">>
DbTeardownError ==
    <<"RuntimeError", "Failed to close PostgreSQL connection">>
VkConnectionError(host) ==
    <<"ConnectionError", "Cannot connect to Valkey server at", host>>
VkNotInitialized ==
    <<"RuntimeError", "Connection pool not initialized. Call initialize() first.">>
\* An exception of asyncpg / glide, raised by the named library call, that
\* reaches the caller as it is.
LibError(call) == <<"LibraryError", call>>
\* asyncio.CancelledError, raised into a task at the named await when its
\* caller cancels it.
Cancelled(call) == <<"CancelledError", call>>
\* Returns that leave a log line: the no-op paths of connect and disconnect.
OkAlreadyConnected == <<"ok", "PG client already connected, reusing existing pool">>
OkAlreadyDisconnected == <<"ok", "PG client already disconnected">>
OkAlreadyInitialized ==
    <<"ok", "Client already initialized, reusing existing connection">>
\* ValkeyConnectionPool() evaluated: the object is in hnd.
OkInstance == <<"ok", "ValkeyConnectionPool()">>

\* ------------------------------------------------------------ helpers
\* Pool states: "absent" (not created), "open", "closing" (close() was
\* called on it and has not returned), "closed" (close() returned).
Live(st) == {i \in DOMAIN st : st[i] \in {"open", "closing"}}
NextId(st) == Cardinality({i \in DOMAIN st : st[i] # "absent"}) + 1

\* A task's frame: where it is suspended (pc, "idle" between calls), the
\* arguments of the call in flight (arg), the pool / client its local
\* variable holds or its call returned (ref), how its last call ended (res),
\* the ValkeyConnectionPool object it holds (hnd) and, inside a
\* ValkeyConnection, that wrapper's pool (pool).
NewTask ==
    [pc |-> "idle", arg |-> NoArg, ref |-> None, res |-> <<"none">>,
     hnd |-> 1, pool |-> None]

Tasks == BagToSet(tasks)

\* The frame of task f once its call has ended with outcome r and value v.
Return(f, r, v) ==
    [f EXCEPT !.pc = "idle", !.arg = NoArg, !.ref = v, !.res = r,
              !.pool = None]

\* The frame of task f suspended at an await, with arguments a and local
\* reference r.
Suspend(f, at, a, r) ==
    [f EXCEPT !.pc = at, !.arg = a, !.ref = r, !.res = Running]

\* Task f takes a step that leaves it with frame g.
Step(f, g) == tasks' = (tasks (-) SetToBag({f})) (+) SetToBag({g})

\* ------------------------------------------------------ DatabaseClient
\* Faulty variant: the already-connected check is missing.
DbConnectGuardNever(pool) == FALSE
\* Faulty variant: a connect in flight turns later callers away.
DbConnectGuardLocked(pool) ==
    pool # None \/ \E g \in Tasks : g.pc = "db_create"
\* connect: the already-connected check
DbConnectGuard(pool) == pool # None

\* connect, up to the await of asyncpg.create_pool
DbConnectCall(f, host, cred) ==
    /\ mgr = "db"
    /\ f.pc = "idle"
    /\ Step(f, IF DbConnectGuard(_pool)
               THEN Return(f, OkAlreadyConnected, None)
               ELSE Suspend(f, "db_create", <<host, cred>>, None))
    /\ UNCHANGED <<mgr, dbVars, vkVars, testVars>>

\* create_pool returns: the pool is stored
DbConnectStored(f) ==
    /\ mgr = "db"
    /\ f.pc = "db_create"
    /\ NextId(poolSt) \in PoolIds
    /\ poolSt' = [poolSt EXCEPT ![NextId(poolSt)] = "open"]
    /\ _pool' = NextId(poolSt)
    /\ Step(f, Return(f, Ok, None))
    /\ UNCHANGED <<mgr, borrowed, vkVars, testVars>>

\* Faulty variant: the error message is built from the dsn.
DbConnectFailureDsn(host, cred) ==
    <<"ConnectionError", "Cannot connect to PostgreSQL server at", cred, host>>
\* The except block of connect: the error raised for a failed create_pool,
\* with host, port, user, password and database in scope.
DbConnectFailure(host, cred) == DbConnectionError(host)

\* create_pool raises: ConnectionError naming host:port
DbConnectFailed(f) ==
    /\ mgr = "db"
    /\ f.pc = "db_create"
    /\ Step(f, Return(f, DbConnectFailure(f.arg[1], f.arg[2]), None))
    /\ UNCHANGED <<mgr, dbVars, vkVars, testVars>>

\* Faulty variant: the already-disconnected check is missing.
DbDisconnectGuardNever(pool) == FALSE
\* disconnect: the already-disconnected check
DbDisconnectGuard(pool) == pool = None

\* disconnect, up to the await of self._pool.close()
DbDisconnectCall(f) ==
    /\ mgr = "db"
    /\ f.pc = "idle"
    /\ IF DbDisconnectGuard(_pool)
       THEN /\ Step(f, Return(f, OkAlreadyDisconnected, None))
            /\ UNCHANGED poolSt
       ELSE /\ Step(f, Suspend(f, "db_close", NoArg, _pool))
            /\ poolSt' = [p \in PoolIds |->
                             IF p = _pool /\ poolSt[p] = "open"
                             THEN "closing" ELSE poolSt[p]]
    /\ UNCHANGED <<mgr, _pool, borrowed, vkVars, testVars>>

\* Faulty variant: disconnect keeps the reference to the closed pool.
DbAfterCloseKept(pool) == pool
\* What disconnect leaves in self._pool once close() has returned.
DbAfterClose(pool) == None
\* What disconnect leaves in self._pool when close() raised.
DbAfterCloseFailed(pool) == pool

\* close() returns: the reference is cleared
DbDisconnectClosed(f) ==
    /\ mgr = "db"
    /\ f.pc = "db_close"
    /\ poolSt' = [p \in PoolIds |-> IF p = f.ref THEN "closed" ELSE poolSt[p]]
    /\ _pool' = DbAfterClose(_pool)
    /\ Step(f, Return(f, Ok, None))
    /\ UNCHANGED <<mgr, borrowed, vkVars, testVars>>

\* close() raises: RuntimeError, the assignment of line 43 is skipped
DbDisconnectFailed(f) ==
    /\ mgr = "db"
    /\ f.pc = "db_close"
    /\ _pool' = DbAfterCloseFailed(_pool)
    /\ Step(f, Return(f, DbTeardownError, None))
    /\ UNCHANGED <<mgr, poolSt, borrowed, vkVars, testVars>>

\* Faulty variant: _ensure_connected never raises.
DbEnsureConnectedAlways(pool) == TRUE
\* _ensure_connected: passes when a pool is referenced, raises otherwise
DbEnsureConnected(pool) == pool # None

DbKinds == {"execute_script", "fetch_one", "fetch_all"}

\* execute_script / fetch_one / fetch_all, up to the await of acquire()
DbOpCall(f, kind) ==
    /\ mgr = "db"
    /\ f.pc = "idle"
    /\ Step(f, IF DbEnsureConnected(_pool)
               THEN Suspend(f, "db_acquire", <<kind>>, _pool)
               ELSE Return(f, DbNotConnected, None))
    /\ UNCHANGED <<mgr, dbVars, vkVars, testVars>>

\* `async with self._pool.acquire() as conn`: entering the block takes a
\* connection of the pool.
Acquire(b, pool) == [p \in PoolIds |-> IF p = pool THEN b[p] + 1 ELSE b[p]]

\* Faulty variant: a cancelled block keeps its connection.
ReleaseUnlessCancelled(b, pool, how) ==
    [p \in PoolIds |-> IF p = pool /\ how # "cancel" THEN b[p] - 1 ELSE b[p]]
\* Leaving the `async with` block gives the connection back, however the
\* block is left (how: "return", "error" or "cancel").
Release(b, pool, how) ==
    [p \in PoolIds |-> IF p = pool THEN b[p] - 1 ELSE b[p]]

\* acquire() returns a connection: the query is sent and awaited
DbAcquired(f) ==
    /\ mgr = "db"
    /\ f.pc = "db_acquire"
    /\ borrowed' = Acquire(borrowed, f.ref)
    /\ Step(f, Suspend(f, "db_query", f.arg, f.ref))
    /\ UNCHANGED <<mgr, _pool, poolSt, vkVars, testVars>>

\* acquire() raises (for instance on a pool that is closing)
DbAcquireFailed(f) ==
    /\ mgr = "db"
    /\ f.pc = "db_acquire"
    /\ Step(f, Return(f, LibError("acquire"), None))
    /\ UNCHANGED <<mgr, dbVars, vkVars, testVars>>

\* the caller cancels the operation while it waits for a connection
DbAcquireCancelled(f) ==
    /\ mgr = "db"
    /\ f.pc = "db_acquire"
    /\ Step(f, Return(f, Cancelled("acquire"), None))
    /\ UNCHANGED <<mgr, dbVars, vkVars, testVars>>

\* The rows a query can match on the server, in the order it sends them.
ResultSets == {<<>>, <<"r1", "r2">>}

\* Faulty variant: fetch_one insists on a row.
DbResultStrict(kind, rows) ==
    CASE kind = "execute_script" -> Ok
      [] kind = "fetch_one" ->
             IF rows = <<>> THEN <<"LookupError", "no row">>
                            ELSE <<"ok", rows[1]>>
      [] kind = "fetch_all" -> <<"ok", "list">> \o rows
\* How the operation ends when its query matched rows: execute_script
\* drops the status and returns None (a plain Ok); fetch_one returns what
\* fetchrow returns, the first row or None; fetch_all returns what fetch
\* returns, the list of the rows.
DbResult(kind, rows) ==
    CASE kind = "execute_script" -> Ok
      [] kind = "fetch_one" -> IF rows = <<>> THEN Ok ELSE <<"ok", rows[1]>>
      [] kind = "fetch_all" -> <<"ok", "list">> \o rows

\* the query returns; leaving the `async with` releases the connection
DbQueryDone(f, rows) ==
    /\ mgr = "db"
    /\ f.pc = "db_query"
    /\ borrowed' = Release(borrowed, f.ref, "return")
    /\ Step(f, Return(f, DbResult(f.arg[1], rows), None))
    /\ UNCHANGED <<mgr, _pool, poolSt, vkVars, testVars>>

\* the query raises; leaving the `async with` releases the connection
DbQueryFailed(f) ==
    /\ mgr = "db"
    /\ f.pc = "db_query"
    /\ borrowed' = Release(borrowed, f.ref, "error")
    /\ Step(f, Return(f, LibError("query"), None))
    /\ UNCHANGED <<mgr, _pool, poolSt, vkVars, testVars>>

\* the caller cancels the operation while it waits for the query:
\* CancelledError leaves the `async with`, which releases the connection
DbQueryCancelled(f) ==
    /\ mgr = "db"
    /\ f.pc = "db_query"
    /\ borrowed' = Release(borrowed, f.ref, "cancel")
    /\ Step(f, Return(f, Cancelled("query"), None))
    /\ UNCHANGED <<mgr, _pool, poolSt, vkVars, testVars>>

\* ------------------------------------------------ ValkeyConnectionPool
\* The class attribute _client: never assigned by the code.
Class_client == None

\* self._client: the instance's own attribute, else the class attribute.
Client(self) ==
    IF inst_client[self] = Unset THEN Class_client ELSE inst_client[self]

\* self._client = client
SetClient(self, client) ==
    inst_client' = [i \in InstIds |-> IF i = self THEN client ELSE inst_client[i]]

\* The objects in use, and the next object id the allocator hands out.
InstInUse == {_instance, valkey_pool} \cup {f.hnd : f \in Tasks}
FreshInst == 1 + CHOOSE m \in InstInUse : \A k \in InstInUse : k <= m

\* Faulty variant: every construction allocates a new object.
NewAlways(cur, fresh) == [_instance |-> fresh, ret |-> fresh]
\* __new__: the instance reference the class keeps, and the object returned
New(cur, fresh) ==
    IF cur = None
    THEN [_instance |-> fresh, ret |-> fresh]
    ELSE [_instance |-> cur, ret |-> cur]

\* pool = ValkeyConnectionPool()
Construct(f) ==
    /\ mgr = "vk"
    /\ f.pc = "idle"
    /\ LET n == New(_instance, FreshInst) IN
           /\ n.ret \in InstIds
           /\ _instance' = n._instance
           /\ Step(f, [Return(f, OkInstance, None) EXCEPT !.hnd = n.ret])
    /\ UNCHANGED <<mgr, dbVars, inst_client, clientSt, valkey_pool, testVars>>

\* initialize: the already-initialized check
VkInitGuard(client) == client # None

\* initialize, up to the await of GlideClient.create
VkInitializeCall(f, host) ==
    /\ mgr = "vk"
    /\ f.pc = "idle"
    /\ Step(f, IF VkInitGuard(Client(f.hnd))
               THEN Return(f, OkAlreadyInitialized, None)
               ELSE Suspend(f, "vk_create", <<host>>, None))
    /\ UNCHANGED <<mgr, dbVars, vkVars, testVars>>

\* create returns: the client is stored, then pinged
VkCreated(f) ==
    /\ mgr = "vk"
    /\ f.pc = "vk_create"
    /\ NextId(clientSt) \in ClientIds
    /\ clientSt' = [clientSt EXCEPT ![NextId(clientSt)] = "open"]
    /\ SetClient(f.hnd, NextId(clientSt))
    /\ Step(f, Suspend(f, "vk_init_ping", f.arg, NextId(clientSt)))
    /\ UNCHANGED <<mgr, dbVars, _instance, valkey_pool, testVars>>

\* create raises: ConnectionError naming host:port
VkCreateFailed(f) ==
    /\ mgr = "vk"
    /\ f.pc = "vk_create"
    /\ Step(f, Return(f, VkConnectionError(f.arg[1]), None))
    /\ UNCHANGED <<mgr, dbVars, vkVars, testVars>>

\* the ping of initialize answers
VkInitPong(f) ==
    /\ mgr = "vk"
    /\ f.pc = "vk_init_ping"
    /\ Step(f, Return(f, Ok, None))
    /\ UNCHANGED <<mgr, dbVars, vkVars, testVars>>

\* What initialize leaves in self._client when its ping raised.
VkAfterPingFailed(client) == client

\* the ping of initialize raises: ConnectionError, nothing is undone
VkInitPingFailed(f) ==
    /\ mgr = "vk"
    /\ f.pc = "vk_init_ping"
    /\ SetClient(f.hnd, VkAfterPingFailed(Client(f.hnd)))
    /\ Step(f, Return(f, VkConnectionError(f.arg[1]), None))
    /\ UNCHANGED <<mgr, dbVars, _instance, clientSt, valkey_pool, testVars>>

\* Faulty variant: get_client returns the class attribute.
GetClientClassAttr(client) ==
    IF client = None
    THEN [res |-> VkNotInitialized, ret |-> None]
    ELSE [res |-> Ok, ret |-> Class_client]
\* get_client: the outcome and the client returned
GetClient(client) ==
    IF client = None
    THEN [res |-> VkNotInitialized, ret |-> None]
    ELSE [res |-> Ok, ret |-> client]

\* await pool.get_client(): no suspension inside
VkGetClient(f) ==
    /\ mgr = "vk"
    /\ f.pc = "idle"
    /\ Step(f, Return(f, GetClient(Client(f.hnd)).res,
                         GetClient(Client(f.hnd)).ret))
    /\ UNCHANGED <<mgr, dbVars, vkVars, testVars>>

\* ping, up to the await of client.ping()
VkPingCall(f) ==
    /\ mgr = "vk"
    /\ f.pc = "idle"
    /\ LET g == GetClient(Client(f.hnd)) IN
           Step(f, IF g.res = Ok
                   THEN Suspend(f, "vk_ping", NoArg, g.ret)
                   ELSE Return(f, g.res, None))
    /\ UNCHANGED <<mgr, dbVars, vkVars, testVars>>

\* the server answers PONG
VkPong(f) ==
    /\ mgr = "vk"
    /\ f.pc = "vk_ping"
    /\ Step(f, Return(f, Ok, None))
    /\ UNCHANGED <<mgr, dbVars, vkVars, testVars>>

\* client.ping() raises: the library's error reaches the caller
VkPingFailed(f) ==
    /\ mgr = "vk"
    /\ f.pc = "vk_ping"
    /\ Step(f, Return(f, LibError("ping"), None))
    /\ UNCHANGED <<mgr, dbVars, vkVars, testVars>>

\* close: `if self._client:`
VkCloseGuard(client) == client # None

\* close, up to the await of self._client.close()
VkCloseCall(f) ==
    /\ mgr = "vk"
    /\ f.pc = "idle"
    /\ IF VkCloseGuard(Client(f.hnd))
       THEN /\ Step(f, Suspend(f, "vk_close", NoArg, Client(f.hnd)))
            /\ clientSt' = [c \in ClientIds |->
                               IF c = Client(f.hnd) /\ clientSt[c] = "open"
                               THEN "closing" ELSE clientSt[c]]
       ELSE /\ Step(f, Return(f, Ok, None))
            /\ UNCHANGED clientSt
    /\ UNCHANGED <<mgr, dbVars, _instance, inst_client, valkey_pool, testVars>>

\* What close leaves in self._client once the client's close() has returned.
VkAfterClose(client) == None
\* What close leaves in self._client when the client's close() raised.
VkAfterCloseFailed(client) == client

\* the client's close() returns: the reference is cleared
VkClosed(f) ==
    /\ mgr = "vk"
    /\ f.pc = "vk_close"
    /\ clientSt' = [c \in ClientIds |->
                       IF c = f.ref THEN "closed" ELSE clientSt[c]]
    /\ SetClient(f.hnd, VkAfterClose(Client(f.hnd)))
    /\ Step(f, Return(f, Ok, None))
    /\ UNCHANGED <<mgr, dbVars, _instance, valkey_pool, testVars>>

\* the client's close() raises: nothing catches it
VkCloseFailed(f) ==
    /\ mgr = "vk"
    /\ f.pc = "vk_close"
    /\ SetClient(f.hnd, VkAfterCloseFailed(Client(f.hnd)))
    /\ Step(f, Return(f, LibError("close"), None))
    /\ UNCHANGED <<mgr, dbVars, _instance, clientSt, valkey_pool, testVars>>

\* ---------------------------------------------------- ValkeyConnection
\* Faulty variant: __aexit__ returns True.
AExitSwallow(exc_type) == TRUE
\* __aexit__'s return value: whether the block's exception is suppressed
AExit(exc_type) == FALSE

\* Faulty variant: __aexit__ drops the shared client.
AExitClientCleared(client) == None
\* What __aexit__ leaves in the pool's _client.
AExitClient(client) == client

\* How `async with ValkeyConnection() as client: <block>` ends when the
\* block ended with exc ("none": it returned).
ScopeResult(exc) ==
    IF exc = "none" \/ AExit(exc) THEN Ok ELSE <<exc>>

\* ValkeyConnection(pool).__aenter__, pool defaulting to valkey_pool
ScopeEnter(f, pool) ==
    /\ mgr = "vk"
    /\ f.pc = "idle"
    /\ LET g == GetClient(Client(pool)) IN
           Step(f, IF g.res = Ok
                   THEN [Suspend(f, "scope_body", NoArg, g.ret)
                             EXCEPT !.pool = pool]
                   ELSE Return(f, g.res, None))
    /\ UNCHANGED <<mgr, dbVars, vkVars, testVars>>

\* the block awaits one operation on the borrowed client and goes on
ScopeOp(f) ==
    /\ mgr = "vk"
    /\ f.pc = "scope_body"
    /\ UNCHANGED vars

\* the block ends; __aexit__ runs
ScopeExit(f, exc) ==
    /\ mgr = "vk"
    /\ f.pc = "scope_body"
    /\ SetClient(f.pool, AExitClient(Client(f.pool)))
    /\ Step(f, Return(f, ScopeResult(exc), None))
    /\ UNCHANGED <<mgr, dbVars, _instance, clientSt, valkey_pool, testVars>>

\* ---------------------------------------------------------- with_valkey
\* What `@with_valkey` binds the decorated name to. with_valkey is declared
\* `async def`: calling it runs no line of its body and gives a coroutine
\* object, not the wrapper its last line would return.
WithValkey(func) == [type |-> "coroutine", of |-> "with_valkey", arg |-> func]

\* Calling a coroutine object.
NotCallable == <<"TypeError", "'coroutine' object is not callable">>

\* get_user(user_id), get_user being decorated as in the docstring
DecoratedCall(f) ==
    /\ mgr = "vk"
    /\ f.pc = "idle"
    /\ LET decorated == WithValkey("get_user")
           g == GetClient(Client(valkey_pool)) IN
           Step(f, IF decorated.type # "function"
                   THEN Return(f, NotCallable, None)
                   ELSE IF g.res = Ok
                        THEN [Suspend(f, "scope_body", NoArg, g.ret)
                                  EXCEPT !.pool = valkey_pool]
                        ELSE Return(f, g.res, None))
    /\ UNCHANGED <<mgr, dbVars, vkVars, testVars>>

\* -------------------------------------- test_concurrent_access (test 4)
\* worker: enters ValkeyConnection and sends incr("shared:counter")
WorkerEnter(w) ==
    /\ wpc[w] = "start"
    /\ wpc' = [wpc EXCEPT ![w] =
                  IF GetClient(Client(valkey_pool)).res = Ok
                  THEN "incr_sent" ELSE "failed"]
    /\ UNCHANGED <<mgr, dbVars, vkVars, tasks, counter>>

\* the server executes the worker's INCR: one atomic command
ServerIncr(w) ==
    /\ wpc[w] = "incr_sent"
    /\ counter' = counter + 1
    /\ wpc' = [wpc EXCEPT ![w] = "incr_applied"]
    /\ UNCHANGED <<mgr, dbVars, vkVars, tasks>>

\* the reply arrives; the worker leaves the scope
WorkerExit(w) ==
    /\ wpc[w] = "incr_applied"
    /\ wpc' = [wpc EXCEPT ![w] = "done"]
    /\ SetClient(valkey_pool, AExitClient(Client(valkey_pool)))
    /\ UNCHANGED <<mgr, dbVars, _instance, clientSt, valkey_pool, tasks,
                   counter>>

\* ------------------------------------------------------ specifications
\* After import of both modules: nothing connected, no call made yet.
Init ==
    /\ mgr \in {"db", "vk"}
    /\ _pool = None
    /\ poolSt = [p \in PoolIds |-> "absent"]
    /\ borrowed = [p \in PoolIds |-> 0]
    /\ _instance = 1
    /\ inst_client = [i \in InstIds |-> Unset]
    /\ clientSt = [c \in ClientIds |-> "absent"]
    /\ valkey_pool = 1
    /\ tasks = [f \in {NewTask} |-> NumTasks]
    /\ counter = 0
    /\ wpc = [w \in Workers |-> "start"]

Next ==
    \/ \E f \in Tasks : \E h \in Hosts, c \in Creds : DbConnectCall(f, h, c)
    \/ \E f \in Tasks : DbConnectStored(f)
    \/ \E f \in Tasks : DbConnectFailed(f)
    \/ \E f \in Tasks : DbDisconnectCall(f)
    \/ \E f \in Tasks : DbDisconnectClosed(f)
    \/ \E f \in Tasks : DbDisconnectFailed(f)
    \/ \E f \in Tasks : \E k \in DbKinds : DbOpCall(f, k)
    \/ \E f \in Tasks : DbAcquired(f)
    \/ \E f \in Tasks : DbAcquireFailed(f)
    \/ \E f \in Tasks : DbAcquireCancelled(f)
    \/ \E f \in Tasks : \E rows \in ResultSets : DbQueryDone(f, rows)
    \/ \E f \in Tasks : DbQueryFailed(f)
    \/ \E f \in Tasks : DbQueryCancelled(f)
    \/ \E f \in Tasks : Construct(f)
    \/ \E f \in Tasks : \E h \in Hosts : VkInitializeCall(f, h)
    \/ \E f \in Tasks : VkCreated(f)
    \/ \E f \in Tasks : VkCreateFailed(f)
    \/ \E f \in Tasks : VkInitPong(f)
    \/ \E f \in Tasks : VkInitPingFailed(f)
    \/ \E f \in Tasks : VkGetClient(f)
    \/ \E f \in Tasks : VkPingCall(f)
    \/ \E f \in Tasks : VkPong(f)
    \/ \E f \in Tasks : VkPingFailed(f)
    \/ \E f \in Tasks : VkCloseCall(f)
    \/ \E f \in Tasks : VkClosed(f)
    \/ \E f \in Tasks : VkCloseFailed(f)
    \/ \E f \in Tasks : \E p \in {valkey_pool, f.hnd} : ScopeEnter(f, p)
    \/ \E f \in Tasks : ScopeOp(f)
    \/ \E f \in Tasks : \E e \in {"none"} \cup BodyErrors : ScopeExit(f, e)
    \/ \E f \in Tasks : DecoratedCall(f)

Spec == Init /\ [][Next]_vars

\* test_concurrent_access, started as main() starts it: the pool
\* initialized, the key set to "0", the workers about to be gathered.
InitTest ==
    /\ mgr = "vk"
    /\ _pool = None
    /\ poolSt = [p \in PoolIds |-> "absent"]
    /\ borrowed = [p \in PoolIds |-> 0]
    /\ _instance = 1
    /\ inst_client = [i \in InstIds |-> IF i = 1 THEN 1 ELSE Unset]
    /\ clientSt = [c \in ClientIds |-> IF c = 1 THEN "open" ELSE "absent"]
    /\ valkey_pool = 1
    /\ tasks = [f \in {NewTask} |-> NumTasks]
    /\ counter = 0
    /\ wpc = [w \in Workers |-> "start"]

NextTest ==
    \E w \in Workers :
        \/ WorkerEnter(w)
        \/ ServerIncr(w)
        \/ WorkerExit(w)

SpecTest == InitTest /\ [][NextTest]_vars

\* ================================================================ claims
\* The manager of this behaviour references a pool / client.
Connected == IF mgr = "db" THEN _pool # None ELSE Client(valkey_pool) # None

\* Task f is idle and no other task has made any call yet.
OnlyCaller(f) ==
    /\ f.pc = "idle"
    /\ tasks = SetToBag({f}) (+) [g \in {NewTask} |-> NumTasks - 1]

\* A step in which a task with frame f can have moved: one copy of f has
\* left the bag, or the bag is as it was (every action of a task f replaces
\* one copy of f by its next frame).
Moved(f) ==
    \/ tasks' = tasks
    \/ f \notin DOMAIN tasks'
    \/ tasks'[f] < tasks[f]

\* C1: per manager, at most one pool / client is created and not yet
\* closed, in every reachable state of every interleaving.
C1_AtMostOneLivePool ==
    /\ Cardinality(Live(poolSt)) <= 1
    /\ Cardinality(Live(clientSt)) <= 1

\* C2: when a connect / initialize has ended in ConnectionError (no other
\* task having made any call), the manager references no pool / client.
C2_FailedConnectHoldsNothing ==
    \A f \in Tasks :
        (OnlyCaller(f) /\ f.res[1] = "ConnectionError") => ~Connected

\* C3: when a disconnect / close has failed because releasing the pool
\* raised (no other task having made any call), the manager's reference is
\* cleared.
C3_FailedCloseClearsReference ==
    \A f \in Tasks :
        (OnlyCaller(f) /\ f.res \in {DbTeardownError, LibError("close")})
            => ~Connected

\* C4: connect / initialize called on a Connected manager, whatever its
\* arguments, returns without raising, starts no pool / client creation and
\* leaves the reference and every pool as they were.
C4_ConnectWhenConnectedIsNoop ==
    [][\A f \in Tasks : Moved(f) =>
          /\ \A h \in Hosts, c \in Creds :
                 (_pool # None /\ DbConnectCall(f, h, c))
                     => /\ Step(f, Return(f, OkAlreadyConnected, None))
                        /\ UNCHANGED <<_pool, poolSt>>
          /\ \A h \in Hosts :
                 (Client(f.hnd) # None /\ VkInitializeCall(f, h))
                     => /\ Step(f, Return(f, OkAlreadyInitialized, None))
                        /\ UNCHANGED <<inst_client, clientSt>>]_vars

C4_Witness ==
    \E f \in Tasks :
        /\ f.pc = "idle"
        /\ Connected
        /\ f.res \in {OkAlreadyConnected, OkAlreadyInitialized}

\* C5: disconnect / close called on a manager that references no pool
\* returns without raising, calls nothing on any pool and changes nothing;
\* and a disconnect / close that returns leaves no pool referenced, so that
\* the call following it is such a call.
C5_DisconnectWhenNotConnectedIsNoop ==
    [][\A f \in Tasks : Moved(f) =>
          /\ (_pool = None /\ DbDisconnectCall(f))
                 => /\ Step(f, Return(f, OkAlreadyDisconnected, None))
                    /\ UNCHANGED <<_pool, poolSt>>
          /\ (Client(f.hnd) = None /\ VkCloseCall(f))
                 => /\ Step(f, Return(f, Ok, None))
                    /\ UNCHANGED <<inst_client, clientSt>>
          /\ DbDisconnectClosed(f) => _pool' = None
          /\ VkClosed(f) => inst_client'[f.hnd] = None]_vars

\* A second disconnect, right after one that closed the pool, was a no-op.
C5_Witness ==
    \E f \in Tasks :
        /\ OnlyCaller(f)
        /\ f.res = OkAlreadyDisconnected
        /\ _pool = None
        /\ \E p \in PoolIds : poolSt[p] = "closed"

\* C6: a data operation called on a manager that references no pool fails
\* with the not-connected error, without any library call and without
\* changing the manager.
C6_DataOpNeedsConnection ==
    [][\A f \in Tasks : Moved(f) =>
          /\ \A k \in DbKinds :
                 (_pool = None /\ DbOpCall(f, k))
                     => /\ Step(f, Return(f, DbNotConnected, None))
                        /\ UNCHANGED <<_pool, poolSt>>
          /\ (Client(f.hnd) = None /\ (VkGetClient(f) \/ VkPingCall(f)))
                 => /\ Step(f, Return(f, VkNotInitialized, None))
                    /\ UNCHANGED <<inst_client, clientSt>>
          /\ \A p \in {valkey_pool, f.hnd} :
                 (Client(p) = None /\ ScopeEnter(f, p))
                     => /\ Step(f, Return(f, VkNotInitialized, None))
                        /\ UNCHANGED <<inst_client, clientSt>>]_vars

C6_Witness ==
    \E f \in Tasks :
        /\ f.pc = "idle"
        /\ ~Connected
        /\ f.res \in {DbNotConnected, VkNotInitialized}

\* C7: every ValkeyConnectionPool() returns the instance the module created
\* first, allocates nothing and leaves the client reference alone, so every
\* holder sees the module-level pool's client.
C7_SingleInstance ==
    [][\A f \in Tasks :
          Construct(f)
              => /\ Step(f, [Return(f, OkInstance, None)
                                EXCEPT !.hnd = valkey_pool])
                 /\ _instance' = _instance
                 /\ inst_client' = inst_client
                 /\ \A g \in Tasks' : Client(g.hnd) = Client(valkey_pool)]_vars

C7_Witness ==
    \E f \in Tasks :
        /\ f.res = OkInstance
        /\ f.hnd = valkey_pool
        /\ Client(f.hnd) # None

\* C8: once every worker of the concurrent-increment test has completed,
\* the key holds exactly the number of workers.
C8_AllIncrementsCounted ==
    (\A w \in Workers : wpc[w] \in {"done", "failed"}) => counter = NumWorkers

C8_Witness ==
    /\ \A w \in Workers : wpc[w] = "done"
    /\ counter = NumWorkers

\* C9: on an initialized pool, get_client, ping, entering ValkeyConnection
\* and operations inside it create no client and change no reference, and
\* the handle they give is the client the pool stores.
C9_BorrowReusesStoredClient ==
    [][\A f \in Tasks : Moved(f) =>
          /\ (Client(f.hnd) # None /\ VkGetClient(f))
                 => /\ Step(f, Return(f, Ok, Client(f.hnd)))
                    /\ UNCHANGED <<inst_client, clientSt>>
          /\ (Client(f.hnd) # None /\ VkPingCall(f))
                 => /\ Step(f, Suspend(f, "vk_ping", NoArg, Client(f.hnd)))
                    /\ UNCHANGED <<inst_client, clientSt>>
          /\ \A p \in {valkey_pool, f.hnd} :
                 (Client(p) # None /\ ScopeEnter(f, p))
                     => /\ Step(f, [Suspend(f, "scope_body", NoArg, Client(p))
                                       EXCEPT !.pool = p])
                        /\ UNCHANGED <<inst_client, clientSt>>
          /\ (ScopeOp(f) \/ VkPong(f) \/ VkPingFailed(f))
                 => UNCHANGED <<inst_client, clientSt>>]_vars

\* Two callers hold the stored client at once: one inside a scoped
\* acquisition, one back from get_client.
C9_Witness ==
    \E f, g \in Tasks :
        /\ f.pc = "scope_body" /\ f.ref = Client(valkey_pool)
        /\ g.pc = "idle" /\ g.res = Ok /\ g.ref = Client(valkey_pool)
        /\ g.ref # None
        /\ Cardinality({c \in ClientIds : clientSt[c] # "absent"}) = 1

\* C10: a block inside ValkeyConnection that raises makes the whole
\* statement raise that same error.
C10_ScopePropagatesError ==
    [][\A f \in Tasks : \A e \in BodyErrors :
          ScopeExit(f, e) => Step(f, Return(f, <<e>>, None))]_vars

C10_Witness ==
    \E f \in Tasks : f.pc = "idle" /\ f.res \in {<<e>> : e \in BodyErrors}

\* C11: entering ValkeyConnection, running an operation inside it and
\* leaving it, by return or by an error of the block, change nothing of the
\* pool; so when the block raised, the pool still stores the client the
\* block borrowed (unless a close has cleared it meanwhile), that client is
\* in the state it was in, and get_client and a new ValkeyConnection on the
\* pool return it.
C11_ScopeLeavesPoolUnchanged ==
    [][\A f \in Tasks : Moved(f) =>
          /\ \A p \in {valkey_pool, f.hnd} :
                 ScopeEnter(f, p) => UNCHANGED vkVars
          /\ ScopeOp(f) => UNCHANGED vkVars
          /\ \A e \in {"none"} \cup BodyErrors :
                 (f.pc = "scope_body" /\ ScopeExit(f, e))
                     => /\ UNCHANGED vkVars
                        /\ Client(f.pool) = f.ref
                               => GetClient(Client(f.pool)') =
                                      [res |-> Ok, ret |-> f.ref]]_vars

\* A block has raised, the pool still stores its open client, and another
\* caller is inside a scoped acquisition holding that client.
C11_Witness ==
    \E f, g \in Tasks :
        /\ f.pc = "idle" /\ f.res \in {<<e>> : e \in BodyErrors}
        /\ Client(valkey_pool) # None
        /\ clientSt[Client(valkey_pool)] = "open"
        /\ g.pc = "scope_body" /\ g.ref = Client(valkey_pool)

\* The connections of pool p that operations in flight hold.
HeldBy(p) ==
    BagCardinality([f \in {g \in Tasks : g.pc = "db_query" /\ g.ref = p}
                       |-> tasks[f]])

\* C12: the connections borrowed from a pool are exactly those of the
\* execute_script / fetch_one / fetch_all calls still inside their
\* `async with` block: each call that has ended, by return, by an error of
\* the query or by cancellation, has given its connection back, and once
\* every started call has ended no connection is borrowed.
C12_AcquiredIsReleased ==
    /\ \A p \in PoolIds : borrowed[p] = HeldBy(p)
    /\ (\A f \in Tasks : f.pc = "idle") => \A p \in PoolIds : borrowed[p] = 0

\* Every task has ended a call, one of them by cancellation of its query
\* and one by an error of its query, and nothing is borrowed.
C12_Witness ==
    /\ \A f \in Tasks : f.pc = "idle"
    /\ \E f, g \in Tasks :
           /\ f.res = Cancelled("query")
           /\ g.res = LibError("query")
    /\ \A p \in PoolIds : borrowed[p] = 0

\* C13: no call ends with the bare error of the library's ping: when the
\* probe of ping() fails, what the caller receives is a health-check error
\* of the manager, which is not the library's error passed through.
C13_PingFailureIsWrapped ==
    \A f \in Tasks : f.res # LibError("ping")

\* C14: the ConnectionError of a failed connect / initialize is the one the
\* call would have raised with any other user, password and database for
\* the same host and port, and its message contains no credential.
C14_ErrorMessageFromEndpointOnly ==
    [][\A f \in Tasks : Moved(f) =>
          /\ (f.pc = "db_create" /\ DbConnectFailed(f))
                 => \A c \in Creds :
                        /\ Step(f, Return(f, DbConnectFailure(f.arg[1], c), None))
                        /\ \A i \in DOMAIN DbConnectFailure(f.arg[1], c) :
                               DbConnectFailure(f.arg[1], c)[i] \notin Creds
          /\ (f.pc \in {"vk_create", "vk_init_ping"}
                  /\ (VkCreateFailed(f) \/ VkInitPingFailed(f)))
                 => /\ Step(f, Return(f, VkConnectionError(f.arg[1]), None))
                    /\ \A i \in DOMAIN VkConnectionError(f.arg[1]) :
                           VkConnectionError(f.arg[1])[i] \notin Creds]_vars

\* A connect has failed for a host while another connect to the same host
\* is in flight.
C14_Witness ==
    \E f, g \in Tasks : \E h \in Hosts :
        /\ f.pc = "idle" /\ f.res = DbConnectionError(h)
        /\ g.pc = "db_create" /\ g.arg[1] = h

\* C15: a fetch_one whose query matched no row returns None and raises
\* nothing; one whose query matched rows returns one of them.
C15_FetchOneAbsence ==
    [][\A f \in Tasks : Moved(f) => \A rows \in ResultSets :
          (f.pc = "db_query" /\ f.arg = <<"fetch_one">> /\ DbQueryDone(f, rows))
              => IF rows = <<>>
                 THEN Step(f, Return(f, Ok, None))
                 ELSE \E i \in DOMAIN rows :
                          Step(f, Return(f, <<"ok", rows[i]>>, None))]_vars

\* The only caller so far has connected and is back from a fetch_one with a
\* row, the pool still open.
C15_Witness ==
    \E f \in Tasks :
        /\ OnlyCaller(f)
        /\ f.res \in {<<"ok", r>> : r \in {"r1", "r2"}}
        /\ _pool # None /\ poolSt[_pool] = "open"

\* C16: no call of a function decorated with with_valkey ends in a
\* TypeError: the call runs the function inside ValkeyConnection with the
\* shared client as first argument and returns its result.
C16_DecoratedCallRuns ==
    \A f \in Tasks : f.res # NotCallable

\* The number of tasks suspended at the given await.
Waiting(at) ==
    BagCardinality([f \in {g \in Tasks : g.pc = at} |-> tasks[f]])

\* C17: a connect / initialize called while the manager references nothing
\* and another task's creation call is still pending passes the
\* already-connected check and calls the library's creation as well: no
\* lock holds it back, so two creations can be pending at once.
C17_ConcurrentConnectCreatesTwice ==
    [][\A f \in Tasks : Moved(f) =>
          /\ \A h \in Hosts, c \in Creds :
                 (_pool = None /\ (\E g \in Tasks : g.pc = "db_create")
                      /\ DbConnectCall(f, h, c))
                     => /\ Step(f, Suspend(f, "db_create", <<h, c>>, None))
                        /\ Waiting("db_create")' = Waiting("db_create") + 1
          /\ \A h \in Hosts :
                 (Client(f.hnd) = None /\ (\E g \in Tasks : g.pc = "vk_create")
                      /\ VkInitializeCall(f, h))
                     => /\ Step(f, Suspend(f, "vk_create", <<h>>, None))
                        /\ Waiting("vk_create")' = Waiting("vk_create") + 1]_vars

\* Two tasks have passed the check and neither has stored a pool yet.
C17_Witness ==
    \/ _pool = None /\ Waiting("db_create") >= 2
    \/ Client(valkey_pool) = None /\ Waiting("vk_create") >= 2

\* C18: every pool / client that was created and is not closed is the one
\* the manager references.
C18_NoPoolLeaked ==
    /\ \A p \in Live(poolSt) : _pool = p
    /\ \A c \in Live(clientSt) : Client(valkey_pool) = c

\* C19: the pool / client a data operation obtains from the manager is one
\* on which no disconnect / close has started the underlying close call.
C19_NoUseAfterClose ==
    [][\A f \in Tasks :
          /\ \A k \in DbKinds :
                 (_pool # None /\ DbOpCall(f, k)) => poolSt[_pool] = "open"
          /\ (Client(f.hnd) # None /\ (VkGetClient(f) \/ VkPingCall(f)))
                 => clientSt[Client(f.hnd)] = "open"
          /\ \A p \in {valkey_pool, f.hnd} :
                 (Client(p) # None /\ ScopeEnter(f, p))
                     => clientSt[Client(p)] = "open"]_vars

\* Some pool / client of the manager has been closed.
HasClosed(st) == \E i \in DOMAIN st : st[i] = "closed"

\* C20: a disconnect / close that succeeds leaves the manager as it was
\* before its first connect, referencing nothing; after it, a connect /
\* initialize is not turned away as already connected but creates a pool
\* that did not exist before and stores it, and data operations take that
\* pool; and so again after every further close.
C20_ClosingIsNotTerminal ==
    [][\A f \in Tasks : Moved(f) =>
          /\ (f.pc = "db_close" /\ DbDisconnectClosed(f))
                 => _pool' = None /\ poolSt'[f.ref] = "closed"
          /\ \A h \in Hosts, c \in Creds :
                 (HasClosed(poolSt) /\ _pool = None /\ DbConnectCall(f, h, c))
                     => Step(f, Suspend(f, "db_create", <<h, c>>, None))
          /\ (HasClosed(poolSt) /\ DbConnectStored(f))
                 => /\ _pool' \in PoolIds
                    /\ poolSt[_pool'] = "absent"
                    /\ poolSt'[_pool'] = "open"
          /\ \A k \in DbKinds :
                 (HasClosed(poolSt) /\ _pool # None /\ DbOpCall(f, k))
                     => Step(f, Suspend(f, "db_acquire", <<k>>, _pool))
          /\ (f.pc = "vk_close" /\ VkClosed(f))
                 => Client(f.hnd)' = None /\ clientSt'[f.ref] = "closed"
          /\ \A h \in Hosts :
                 (HasClosed(clientSt) /\ Client(f.hnd) = None
                      /\ VkInitializeCall(f, h))
                     => Step(f, Suspend(f, "vk_create", <<h>>, None))
          /\ (HasClosed(clientSt) /\ VkCreated(f))
                 => /\ Client(f.hnd)' \in ClientIds
                    /\ clientSt[Client(f.hnd)'] = "absent"
                    /\ clientSt'[Client(f.hnd)'] = "open"
          /\ (HasClosed(clientSt) /\ Client(f.hnd) # None /\ VkGetClient(f))
                 => Step(f, Return(f, Ok, Client(f.hnd)))]_vars

\* One caller alone has connected, disconnected, connected again and is
\* back from a fetch_one on the second pool with a row.
C20_Witness ==
    \E f \in Tasks :
        /\ OnlyCaller(f)
        /\ f.res \in {<<"ok", r>> : r \in {"r1", "r2"}}
        /\ poolSt[1] = "closed"
        /\ _pool = 2 /\ poolSt[2] = "open"
====
